---- MODULE Spec2Model ----
(***************************************************************************)
(* A model of the resilient call dispatcher of bitcoind-async-client       *)
(* (src/src/client.rs): the shared id counter of a Client and its clones,  *)
(* the retry loop of Client::call with its classification of responses     *)
(* and transport failures, and the facade methods built on top of it.      *)
(*                                                                         *)
(* A task is one caller awaiting one facade method.  The steps of a task   *)
(* are the suspension points of Client::call: the request is sent (the id  *)
(* is allocated by one atomic fetch_add right before), the response or     *)
(* the transport failure arrives, the retry sleep elapses.                  *)
(***************************************************************************)
EXTENDS Integers, Sequences, FiniteSets, TLC

(***************************************************************************)
(* Bounds of the model.                                                    *)
(***************************************************************************)
\* largest max_retries override passed to Client::new
MaxRetriesBound == 3
\* number of concurrent callers in the concurrent specification
NumTasks == 2
\* number of client handles (the client and its clones)
MaxHandles == 2
\* largest amount decoded or serialized, in units of 10^-9 BTC
MaxTenths == 12

(***************************************************************************)
(* Program constants.                                                      *)
(***************************************************************************)
DEFAULT_MAX_RETRIES == 3
DEFAULT_RETRY_INTERVAL_MS == 1000
\* the server code of "transaction already in chain"
TX_ALREADY_IN_CHAIN == 0 - 27

Tasks == 1..NumTasks
Handles == 1..MaxHandles
\* a counter cell is what an Arc<AtomicUsize> points to
Cells == 1..MaxHandles
\* a retry_interval override passed to Client::new by the callers modelled
RetryIntervalOverride == 250

(***************************************************************************)
(* Results: ClientResult<T>.  One record shape for Ok and for every        *)
(* ClientError variant; the fields a variant does not carry are 0 / "".    *)
(***************************************************************************)
NoResult == [tag |-> "None", code |-> 0, msg |-> "", val |-> ""]
Ok(v) == [tag |-> "Ok", code |-> 0, msg |-> "", val |-> v]
Err(kind, code, msg) == [tag |-> kind, code |-> code, msg |-> msg, val |-> ""]
IsErr(r) == r.tag \notin {"Ok", "None"}
\* a panic: the call does not return
Panic == [tag |-> "Panic", code |-> 0, msg |-> "", val |-> ""]

(***************************************************************************)
(* Inputs: what one HTTP attempt can come back with.                       *)
(*   - a transport failure (reqwest::Error): its kind and the two flags    *)
(*     is_connect / is_timeout, which reqwest derives from the error's     *)
(*     source chain independently of the kind; a failure of kind status    *)
(*     may or may not carry a status code;                                 *)
(*   - an HTTP response: status code, and the body, which either fails to  *)
(*     be read, or is text that is not an envelope, or is an envelope      *)
(*     {result, error, id}.                                                *)
(***************************************************************************)
Kinds == {"builder", "request", "redirect", "status", "body", "decode", "upgrade"}
Statuses == {200, 304, 401, 499}
\* result field of an envelope: null, a JSON number, a JSON string holding
\* the hex of a transaction identifier, or a gettransaction object: a good
\* one, one whose txid is not 64 hex digits, one whose hex is not that of a
\* transaction
ResultFields ==
    {"null", "7", "txid_a", "txid_b", "gettx_ok", "gettx_badtxid", "gettx_badhex"}
\* error field of an envelope: code 0 with has = FALSE stands for null
ErrorObjects ==
    {<<TX_ALREADY_IN_CHAIN, "already in chain">>,
     <<0 - 5, "already in chain">>,
     <<0 - 5, "not found">>}

Failure(kind, connect, timeout, status) ==
    [t |-> "fail", kind |-> kind, connect |-> connect, timeout |-> timeout,
     status |-> status, text |-> "", result |-> "", haserr |-> FALSE,
     ecode |-> 0, emsg |-> "", idoff |-> 0]

Http(status, text, result, haserr, ecode, emsg, idoff) ==
    [t |-> "http", kind |-> "", connect |-> FALSE, timeout |-> FALSE,
     status |-> status, text |-> text, result |-> result, haserr |-> haserr,
     ecode |-> ecode, emsg |-> emsg, idoff |-> idoff]

NoResponse ==
    [t |-> "none", kind |-> "", connect |-> FALSE, timeout |-> FALSE,
     status |-> 0, text |-> "", result |-> "", haserr |-> FALSE,
     ecode |-> 0, emsg |-> "", idoff |-> 0]

\* status 0 in a failure: err.status() is None
Failures ==
    {Failure(k, c, tm, 0) : k \in Kinds, c \in BOOLEAN, tm \in BOOLEAN}
    \cup {Failure("status", c, tm, 401) : c \in BOOLEAN, tm \in BOOLEAN}

Envelopes(s) ==
    {Http(s, "envelope", r, FALSE, 0, "", o) : r \in ResultFields, o \in {0, 1}}
    \cup {Http(s, "envelope", r, TRUE, e[1], e[2], o) :
             r \in ResultFields, e \in ErrorObjects, o \in {0, 1}}

\* a response whose body fails to be read: resp.text() is an Err of kind
\* decode (the body is malformed) or body (the connection broke)
Unreadable(status, kind) ==
    [Http(status, "unreadable", "", FALSE, 0, "", 0) EXCEPT !.kind = kind]

HttpResponses ==
    UNION {{Unreadable(s, "decode"), Unreadable(s, "body"),
            Http(s, "garbage", "", FALSE, 0, "", 0)} \cup Envelopes(s) :
           s \in Statuses}

Responses == Failures \cup HttpResponses

\* the responses met in the concurrent specification
ConcResponses ==
    {Failure("request", TRUE, FALSE, 0),
     Http(200, "envelope", "7", FALSE, 0, "", 0)}

(***************************************************************************)
(* Facade methods modelled, and their inputs.                              *)
(***************************************************************************)
Methods == {"get_block_count", "send_raw_transaction", "get_transaction"}
\* the facade methods that make several calls, read the environment or
\* encode structured parameters
FacadeMethods ==
    {"get_block_at", "get_block_header_at", "get_current_timestamp",
     "get_xpriv", "import_descriptors"}
Txs == {"tx_a", "tx_b"}
\* the transactions a method can be called with ("tx_a" where it takes none)
Args(m) == IF m = "send_raw_transaction" THEN Txs ELSE {"tx_a"}

\* Transaction::compute_txid: the identifier is a function of the transaction
compute_txid(tx) == IF tx = "tx_a" THEN "txid_a" ELSE "txid_b"
\* consensus::encode::serialize_hex
serialize_hex(tx) == IF tx = "tx_a" THEN "hex_a" ELSE "hex_b"

\* JSON strings of 64 hex digits
Hex64 == {"txid_a", "txid_b", "hash_a"}
\* JSON strings
JsonStrings == Hex64 \cup {"blockhex", "nothex"}

\* the walletprocesspsbt results met: objects {"psbt": .., "complete": ..}
\* whose psbt member is a valid base64 PSBT, null, a string that is no PSBT,
\* or is not in the object
PsbtResults == {"wpp_valid", "wpp_null", "wpp_malformed", "wpp_missing"}
psbt_member(v) ==
    CASE v = "wpp_valid" -> "valid"
      [] v = "wpp_null" -> "null"
      [] v = "wpp_malformed" -> "malformed"
      [] OTHER -> "missing"

\* deserialize_option_psbt on the value of the member: Option<String>, then
\* the parse of the string
deserialize_option_psbt(f) ==
    IF f = "null" THEN [ok |-> TRUE, psbt |-> "None"]
    ELSE IF f = "valid" THEN [ok |-> TRUE, psbt |-> "Some"]
    ELSE [ok |-> FALSE, psbt |-> ""]

\* the psbt field of the derived Deserialize of WalletProcessPsbtResult:
\* deserialize_with and no default, so a missing member is the error
\* missing_field and the decoder is not run
WalletProcessPsbtResult_psbt(f) ==
    IF f = "missing" THEN [ok |-> FALSE, psbt |-> ""]
    ELSE deserialize_option_psbt(f)

\* the type T of call::<T>, and whether a non-null result field decodes as T
ResultType(m) ==
    IF m = "send_raw_transaction" THEN "Txid"
    ELSE IF m = "get_transaction" THEN "GetTransaction"
    ELSE "u64"
DecodesAs(T, v) ==
    CASE T = "u64" -> v = "7"
      [] T \in {"Txid", "BlockHash"} -> v \in Hex64
      [] T \in {"GetBlockVerbosityZero", "GetBlockHeaderVerbosityZero"} ->
            v \in JsonStrings
      [] T = "GetTransaction" -> v = "gettx_ok"
      [] T = "ListDescriptors" ->
            v \in {"descs_empty", "descs_notr", "descs_badkey", "descs_tr"}
      [] T = "Vec<ImportDescriptorResult>" -> v = "import_ok"
      [] T = "Value" -> TRUE
      [] T = "WalletProcessPsbtResult" ->
            v \in PsbtResults /\ WalletProcessPsbtResult_psbt(psbt_member(v)).ok
      [] OTHER -> FALSE

\* deserialize_txid and deserialize_tx, the decoders of the fields txid and
\* hex of GetTransaction: parse(..).expect(..) on the string of the field
ExpectFails(T, v) ==
    T = "GetTransaction" /\ v \in {"gettx_badtxid", "gettx_badhex"}

RpcMethod(m) ==
    IF m = "send_raw_transaction" THEN "sendrawtransaction"
    ELSE IF m = "get_transaction" THEN "gettransaction"
    ELSE "getblockcount"
RpcParams(m, tx) ==
    IF m = "send_raw_transaction" THEN <<serialize_hex(tx)>>
    ELSE IF m = "get_transaction" THEN <<compute_txid(tx)>>
    ELSE <<>>

(***************************************************************************)
(* The cookie file: a text over a small alphabet, "nl" being the line      *)
(* terminator, or no file at all.                                          *)
(***************************************************************************)
MaxFileLen == 5
Chars == {"a", ":", "nl"}
Texts == UNION {[1..n -> Chars] : n \in 0..MaxFileLen}
NoFile == [exists |-> FALSE, text |-> <<>>]
File(s) == [exists |-> TRUE, text |-> s]
Files == {NoFile} \cup {File(s) : s \in Texts}
\* the file bitcoind wrote before the client was built, and the one it
\* writes when it restarts
DefaultCookie == File(<<"a", ":", "a", "nl">>)
RotatedCookie == File(<<"a", ":", ":", "nl">>)

\* BufReader::lines().next(): the text before the first line terminator;
\* None when the file holds no byte
FirstLineEnd(s) ==
    IF \E i \in 1..Len(s) : s[i] = "nl"
    THEN (CHOOSE i \in 1..Len(s) : s[i] = "nl" /\ \A j \in 1..(i - 1) : s[j] # "nl") - 1
    ELSE Len(s)
first_line(s) == SubSeq(s, 1, FirstLineEnd(s))

\* str::find(':'): the index of the first colon, 0 for None
find_colon(line) ==
    IF \E i \in 1..Len(line) : line[i] = ":"
    THEN CHOOSE i \in 1..Len(line) :
            line[i] = ":" /\ \A j \in 1..(i - 1) : line[j] # ":"
    ELSE 0

Auths == {"None", "UserPass", "CookieFile"}
NoCred == [has |-> FALSE, user |-> <<>>, pass |-> <<>>]
Cred(u, p) == [has |-> TRUE, user |-> u, pass |-> p]
\* the strings of Auth::UserPass
USER == <<"a", "a">>
PASS == <<":", "a">>

UserPassOk(c) == [tag |-> "Ok", msg |-> "", cred |-> c]
UserPassErr(m) == [tag |-> "Other", msg |-> m, cred |-> NoCred]

\* a split at the last colon
get_user_pass_last(auth, file) ==
    CASE auth = "None" -> UserPassOk(NoCred)
      [] auth = "UserPass" -> UserPassOk(Cred(USER, PASS))
      [] OTHER ->
            IF ~file.exists THEN UserPassErr("open")
            ELSE IF file.text = <<>> THEN UserPassErr("Invalid cookie file")
            ELSE LET line == first_line(file.text)
                     colon == IF find_colon(line) = 0 THEN 0
                              ELSE CHOOSE i \in 1..Len(line) :
                                      line[i] = ":" /\ \A j \in (i + 1)..Len(line) : line[j] # ":"
                 IN IF colon = 0 THEN UserPassErr("Invalid cookie file")
                    ELSE UserPassOk(Cred(SubSeq(line, 1, colon - 1),
                                         SubSeq(line, colon + 1, Len(line))))

get_user_pass(auth, file) ==
    CASE auth = "None" -> UserPassOk(NoCred)
      [] auth = "UserPass" -> UserPassOk(Cred(USER, PASS))
      [] OTHER ->
            IF ~file.exists THEN UserPassErr("open")
            ELSE IF file.text = <<>> THEN UserPassErr("Invalid cookie file")
            ELSE LET line == first_line(file.text)
                     colon == find_colon(line)
                 IN IF colon = 0 THEN UserPassErr("Invalid cookie file")
                    ELSE UserPassOk(Cred(SubSeq(line, 1, colon - 1),
                                         SubSeq(line, colon + 1, Len(line))))

(***************************************************************************)
(* The codecs of types.rs that stand alone: the two amount decoders and    *)
(* the Serialize / Deserialize of CreateRawTransactionOutput.              *)
(*                                                                         *)
(* An f64 is finite, NaN or infinite; a finite one is counted in units of  *)
(* 10^-9 BTC, a tenth of a satoshi, so that an amount with more than       *)
(* eight decimals can be told from a whole number of satoshis.  A JSON     *)
(* number is a float (written with a fraction or an exponent), which       *)
(* serde_json hands to visit_f64, or an integer, which it hands to         *)
(* visit_u64 / visit_i64.                                                  *)
(***************************************************************************)
Finite(n) == [class |-> "finite", e9 |-> n]
NaN == [class |-> "nan", e9 |-> 0]
Infinity == [class |-> "inf", e9 |-> 0]

JFloat(n) == [t |-> "float", n |-> n, s |-> ""]
JInt(n) == [t |-> "int", n |-> n, s |-> ""]
JString(s) == [t |-> "string", n |-> 0, s |-> s]

\* a serde error, and the value of a decoder or serializer that has not run
SerdeError(msg) == Err("Error", 0, msg)
NotRun == NoResult

\* Amount::from_btc: the satoshis of a finite f64, or an error when it is
\* negative or has more than eight decimals
Amount_from_btc(n) ==
    IF n < 0 THEN SerdeError("Negative")
    ELSE IF n % 10 # 0 THEN SerdeError("TooPrecise")
    ELSE Ok(n \div 10)

\* SignedAmount::from_btc: as above, negative amounts included
SignedAmount_from_btc(n) ==
    IF n % 10 # 0 THEN SerdeError("TooPrecise")
    ELSE Ok(n \div 10)

\* deserialize_bitcoin: SatVisitor has visit_f64 only, so every other JSON
\* value is the visitor's invalid-type error; visit_f64 unwraps from_btc
\* with expect
deserialize_bitcoin(j) ==
    IF j.t # "float" THEN SerdeError("invalid type")
    ELSE IF Amount_from_btc(j.n).tag = "Ok" THEN Amount_from_btc(j.n)
    ELSE Panic

deserialize_signed_bitcoin(j) ==
    IF j.t # "float" THEN SerdeError("invalid type")
    ELSE IF SignedAmount_from_btc(j.n).tag = "Ok" THEN SignedAmount_from_btc(j.n)
    ELSE Panic

\* the JSON amounts decoded
AmountInputs ==
    {JFloat(n) : n \in (0 - MaxTenths)..MaxTenths}
        \cup {JInt(n) : n \in {0 - 1, 0, 1}}
        \cup {JString("0.5")}

\* CreateRawTransactionOutput: the two variants in one record shape
AddressAmount(address, amount) ==
    [variant |-> "AddressAmount", address |-> address, amount |-> amount,
     data |-> ""]
Data(data) ==
    [variant |-> "Data", address |-> "", amount |-> Finite(0), data |-> data]

Addresses == {"bcrt1q", "data", "address"}
Payloads == {"deadbeef", "bcrt1q"}
OutputAmounts == {Finite(0), Finite(1), Finite(MaxTenths), NaN, Infinity}
Outputs ==
    {AddressAmount(a, f) : a \in Addresses, f \in OutputAmounts}
        \cup {Data(d) : d \in Payloads}

\* a JSON object (serde_json::Map) is the set of its members
Member(key, val) == [key |-> key, val |-> val]
Has(obj, key, t) == \E m \in obj : m.key = key /\ m.val.t = t
Get(obj, key) == (CHOOSE m \in obj : m.key = key).val

\* serde_json::Number::from_f64: None for NaN and the infinities
Number_from_f64(f) ==
    IF f.class = "finite" THEN Ok(JFloat(f.e9)) ELSE NoResult

\* impl Serialize for CreateRawTransactionOutput: a map of one member; the
\* Option of Number::from_f64 is unwrapped
serialize(x) ==
    IF x.variant = "AddressAmount"
    THEN IF Number_from_f64(x.amount).tag = "Ok"
         THEN Ok({Member(x.address, Number_from_f64(x.amount).val)})
         ELSE Panic
    ELSE Ok({Member("data", JString(x.data))})

\* the f64 of a JSON number
f64_of(j) == IF j.t = "float" THEN Finite(j.n) ELSE Finite(j.n * 1000000000)

\* #[derive(Deserialize)] #[serde(untagged)]: the variants are tried in the
\* order they are declared, each as the struct of its named fields; members
\* that are no field are ignored
deserialize(obj) ==
    IF /\ Has(obj, "address", "string")
       /\ (Has(obj, "amount", "float") \/ Has(obj, "amount", "int"))
    THEN Ok(AddressAmount(Get(obj, "address").s, f64_of(Get(obj, "amount"))))
    ELSE IF Has(obj, "data", "string")
    THEN Ok(Data(Get(obj, "data").s))
    ELSE SerdeError("data did not match any variant of untagged enum")

VARIABLES
    env,        \* whether BITCOIN_XPRIV_RETRIEVABLE is set in the environment
    cookie,     \* the cookie file
    newargs,    \* the arguments Client::new was called with
    newres,     \* what Client::new returned: "None" before it is called
    userpass,   \* what get_user_pass returned to Client::new
    handles,    \* the client handles that exist
    cell,       \* cell[h]: the counter cell handle h points to (Arc)
    id,         \* id[c]: the value of counter cell c (AtomicUsize)
    cfg,        \* cfg[h]: url, headers, max_retries, retry_interval of handle h
    pc,         \* pc[t]: where task t is
    self,       \* self[t]: the handle task t calls through
    method,     \* method[t]: the facade method task t runs
    tx,         \* tx[t]: the argument of the method (a transaction, or the
                \* options of wallet_process_psbt)
    calls,      \* calls[t]: the calls the method has completed, with results
    cur,        \* cur[t]: the call in progress: rpc method, params, type T
    retries,    \* retries[t]: the local retry counter of Client::call
    reqs,       \* reqs[t]: the requests sent by the call so far, in order
    hist,       \* hist[t]: the classes of the failed attempts retried so far
    last,       \* last[t]: what the latest attempt came back with
    sleeps,     \* sleeps[t]: the retry sleeps that have elapsed
    elapsed,    \* elapsed[t]: the milliseconds slept
    res,        \* res[t]: the value Client::call returned
    ret,        \* ret[t]: the value the facade method returned
    amt,        \* a JSON amount and what the two amount decoders made of it
    out         \* a CreateRawTransactionOutput, its JSON, and the value and
                \* the JSON that come back from them

vars == <<env, cookie, newargs, newres, userpass, handles, cell, id, cfg, pc, self,
          method, tx, calls, cur, retries, reqs, hist, last, sleeps,
          elapsed, res, ret, amt, out>>

clientVars == <<handles, cell, cfg>>
worldVars == <<env, cookie, newargs, newres, userpass>>
codecVars == <<amt, out>>
callVars == <<retries, reqs, hist, last, sleeps, elapsed, res>>
taskVars == <<pc, self, method, tx, calls, cur, ret>>

(***************************************************************************)
(* Client::new                                                             *)
(***************************************************************************)
URL == "http://127.0.0.1:18443"
\* the Authorization header: Basic base64(user ":" pass); base64 is
\* one-to-one, the header is modelled by the text it encodes
NoHeader == [has |-> FALSE, basic |-> <<>>]
authorization(c) ==
    IF c.has THEN [has |-> TRUE, basic |-> c.user \o <<":">> \o c.pass]
    ELSE NoHeader

\* Option<u8> and Option<u64>: -1 stands for None
NewClient(url, header, max_retries, retry_interval) ==
    [url |-> url,
     auth |-> header,
     max_retries |-> IF max_retries = -1 THEN DEFAULT_MAX_RETRIES
                     ELSE max_retries,
     retry_interval |-> IF retry_interval = -1 THEN DEFAULT_RETRY_INTERVAL_MS
                        ELSE retry_interval]

NoClient == [url |-> "", auth |-> NoHeader, max_retries |-> 0, retry_interval |-> 0]

NewArgs(auth, mr, ri) == [auth |-> auth, max_retries |-> mr, retry_interval |-> ri]

\* Client::new(url, auth, max_retries, retry_interval)
Client_new(a, file) ==
    LET up == get_user_pass(a.auth, file)
    IN IF up.tag # "Ok"
       THEN [tag |-> up.tag, msg |-> up.msg, up |-> up, client |-> NoClient]
       ELSE [tag |-> "Ok", msg |-> "", up |-> up,
             client |-> NewClient(URL, authorization(up.cred),
                                  a.max_retries, a.retry_interval)]

NoCall == [op |-> "none", rpc |-> "", params |-> <<>>, T |-> "", val |-> NoResult]

TaskInit ==
    /\ pc = [t \in Tasks |-> "idle"]
    /\ self = [t \in Tasks |-> 1]
    /\ method = [t \in Tasks |-> "get_block_count"]
    /\ tx = [t \in Tasks |-> "tx_a"]
    /\ calls = [t \in Tasks |-> <<>>]
    /\ cur = [t \in Tasks |-> NoCall]
    /\ retries = [t \in Tasks |-> 0]
    /\ reqs = [t \in Tasks |-> <<>>]
    /\ hist = [t \in Tasks |-> <<>>]
    /\ last = [t \in Tasks |-> NoResponse]
    /\ sleeps = [t \in Tasks |-> 0]
    /\ elapsed = [t \in Tasks |-> 0]
    /\ res = [t \in Tasks |-> NoResult]
    /\ ret = [t \in Tasks |-> NoResult]

\* no codec is at work
CodecIdle ==
    /\ amt = [v |-> JFloat(0), done |-> FALSE, unsigned |-> NotRun,
              signed |-> NotRun]
    /\ out = [x |-> Data(""), json |-> NotRun, back |-> NotRun,
              again |-> NotRun]

\* the state before Client::new is called
PreInit ==
    /\ CodecIdle
    /\ env \in BOOLEAN
    /\ cookie \in Files
    /\ newargs \in {NewArgs(a, -1, -1) : a \in Auths}
    /\ newres = "None"
    /\ userpass = UserPassErr("")
    /\ handles = {}
    /\ cell = [h \in Handles |-> 1]
    /\ id = [c \in Cells |-> 0]
    /\ cfg = [h \in Handles |-> NoClient]
    /\ TaskInit

Construct ==
    /\ newres = "None"
    /\ LET c == Client_new(newargs, cookie)
       IN /\ newres' = c.tag
          /\ userpass' = c.up
          /\ IF c.tag = "Ok"
             THEN handles' = {1} /\ cfg' = [cfg EXCEPT ![1] = c.client]
             ELSE UNCHANGED <<handles, cfg>>
    /\ UNCHANGED <<env, cookie, newargs, cell, id, callVars, taskVars,
                   codecVars>>

\* the state after Client::new(url, Auth::CookieFile(path), mr, ri) returned
\* a client, the cookie file being the one bitcoind wrote
InitClient ==
    /\ env \in BOOLEAN
    /\ cookie = DefaultCookie
    /\ newargs \in {NewArgs("CookieFile", mr, ri) :
                      mr \in {-1} \cup 0..MaxRetriesBound,
                      ri \in {-1, RetryIntervalOverride}}
    /\ newres = "Ok"
    /\ userpass = Client_new(newargs, cookie).up
    /\ handles = {1}
    /\ cell = [h \in Handles |-> 1]
    /\ id = [c \in Cells |-> 0]
    /\ cfg = [h \in Handles |-> IF h = 1 THEN Client_new(newargs, cookie).client
                                ELSE NoClient]
    /\ TaskInit

Init == InitClient /\ CodecIdle

\* bitcoind restarts and writes a new cookie
RewriteCookie ==
    /\ cookie = DefaultCookie
    /\ cookie' = RotatedCookie
    /\ UNCHANGED <<env, newargs, newres, userpass, clientVars, id, callVars,
                   taskVars, codecVars>>

(***************************************************************************)
(* #[derive(Clone)] of Client: the new handle gets a copy of every field;  *)
(* the copy of an Arc points to the same cell.                             *)
(***************************************************************************)
\* a clone that copies the counter instead of sharing it
CloneDeep(h, n) ==
    /\ h \in handles
    /\ n \in Handles \ handles
    /\ handles' = handles \cup {n}
    /\ cell' = [cell EXCEPT ![n] = n]
    /\ id' = [id EXCEPT ![n] = id[cell[h]]]
    /\ cfg' = [cfg EXCEPT ![n] = cfg[h]]
    /\ UNCHANGED <<worldVars, codecVars, callVars, taskVars>>

Clone(h, n) ==
    /\ h \in handles
    /\ n \in Handles \ handles
    /\ handles' = handles \cup {n}
    /\ cell' = [cell EXCEPT ![n] = cell[h]]
    /\ cfg' = [cfg EXCEPT ![n] = cfg[h]]
    /\ UNCHANGED <<id, worldVars, codecVars, callVars, taskVars>>

(***************************************************************************)
(* The classification of one attempt, as Client::call does it.  An         *)
(* outcome is the result the call returns, or Retry: control falls out of  *)
(* the match to the retry accounting at the end of the loop body.          *)
(***************************************************************************)
Retry(class) == [tag |-> "Retry", code |-> 0, msg |-> class, val |-> ""]

\* reqwest's Display of a transport failure: a text that names its kind
to_string(f) == f.kind

\* StatusCode::canonical_reason
canonical_reason(s) ==
    CASE s = 200 -> "OK"
      [] s = 304 -> "Not Modified"
      [] s = 401 -> "Unauthorized"
      [] OTHER -> "none"

\* Response::error_for_status is an Err for the client and server error
\* statuses (4xx, 5xx) and Ok(resp) for every other status
\* only the server errors
error_for_status_5xx(s) == s >= 500 /\ s <= 599

error_for_status(s) == s >= 400 /\ s <= 599

StatusOutcome(s) ==
    Err("Status", s,
        IF canonical_reason(s) = "none" THEN "Unknown" ELSE canonical_reason(s))

\* an absent result defaulted instead of reported
EnvelopeOutcomeDefault(r) ==
    IF r.haserr THEN Err("Server", r.ecode, r.emsg)
    ELSE Ok(r.result)

\* the result looked at before the error
EnvelopeOutcomeResultFirst(r) ==
    IF r.result # "null" THEN Ok(r.result)
    ELSE IF r.haserr THEN Err("Server", r.ecode, r.emsg)
    ELSE Err("Other", 0, "Empty data received")

\* the envelope has been parsed: error first, then result
EnvelopeOutcome(r) ==
    IF r.haserr THEN Err("Server", r.ecode, r.emsg)
    ELSE IF r.result = "null" THEN Err("Other", 0, "Empty data received")
    ELSE Ok(r.result)

\* resp.text() and serde_json::from_str::<Response<T>>: the fields of the
\* envelope are decoded as the text is read, the result as T; a decoder of T
\* that panics unwinds out of from_str and out of Client::call
BodyOutcome(r, T) ==
    IF r.text = "unreadable" THEN Err("Parse", 0, "body")
    ELSE IF r.text = "garbage" THEN Err("Parse", 0, "json")
    ELSE IF r.result # "null" /\ ExpectFails(T, r.result) THEN Panic
    ELSE IF r.result # "null" /\ ~DecodesAs(T, r.result) THEN Err("Parse", 0, "json")
    ELSE EnvelopeOutcome(r)

\* the body parsed before the status is looked at
HttpOutcomeBodyFirst(r, T) ==
    IF r.text = "envelope" /\ r.haserr THEN BodyOutcome(r, T)
    ELSE IF error_for_status(r.status) THEN StatusOutcome(r.status)
    ELSE BodyOutcome(r, T)

\* the Ok(resp) arm
HttpOutcome(r, T) ==
    IF error_for_status(r.status) THEN StatusOutcome(r.status)
    ELSE BodyOutcome(r, T)

is_body(f) == f.kind = "body"
is_status(f) == f.kind = "status"
is_decode(f) == f.kind = "decode"
is_connect(f) == f.connect
is_timeout(f) == f.timeout
is_request(f) == f.kind = "request"
is_builder(f) == f.kind = "builder"
is_redirect(f) == f.kind = "redirect"

\* the timeout arm returning instead of falling through
FailureOutcomeTimeoutReturns(f) ==
    IF is_body(f) THEN Err("Body", 0, to_string(f))
    ELSE IF is_status(f) THEN
        (IF f.status # 0 THEN Err("Status", f.status, to_string(f))
         ELSE Err("Other", 0, to_string(f)))
    ELSE IF is_decode(f) THEN Retry("MalformedResponse")
    ELSE IF is_connect(f) THEN Retry("Connection")
    ELSE IF is_timeout(f) THEN Err("Timeout", 0, "")
    ELSE IF is_request(f) THEN Retry("Request")
    ELSE IF is_builder(f) THEN Err("ReqBuilder", 0, to_string(f))
    ELSE IF is_redirect(f) THEN Err("HttpRedirect", 0, to_string(f))
    ELSE Err("Other", 0, "Unknown error")

\* the builder arm falling through instead of returning
FailureOutcomeBuilderRetried(f) ==
    IF is_body(f) THEN Err("Body", 0, to_string(f))
    ELSE IF is_status(f) THEN
        (IF f.status # 0 THEN Err("Status", f.status, to_string(f))
         ELSE Err("Other", 0, to_string(f)))
    ELSE IF is_decode(f) THEN Retry("MalformedResponse")
    ELSE IF is_connect(f) THEN Retry("Connection")
    ELSE IF is_timeout(f) THEN Retry("Timeout")
    ELSE IF is_request(f) THEN Retry("Request")
    ELSE IF is_builder(f) THEN Retry("ReqBuilder")
    ELSE IF is_redirect(f) THEN Err("HttpRedirect", 0, to_string(f))
    ELSE Err("Other", 0, "Unknown error")

\* the connection and timeout flags tested before the kinds
FailureOutcomeFlagsFirst(f) ==
    IF is_connect(f) THEN Retry("Connection")
    ELSE IF is_timeout(f) THEN Retry("Timeout")
    ELSE IF is_body(f) THEN Err("Body", 0, to_string(f))
    ELSE IF is_status(f) THEN
        (IF f.status # 0 THEN Err("Status", f.status, to_string(f))
         ELSE Err("Other", 0, to_string(f)))
    ELSE IF is_decode(f) THEN Retry("MalformedResponse")
    ELSE IF is_request(f) THEN Retry("Request")
    ELSE IF is_builder(f) THEN Err("ReqBuilder", 0, to_string(f))
    ELSE IF is_redirect(f) THEN Err("HttpRedirect", 0, to_string(f))
    ELSE Err("Other", 0, "Unknown error")

\* the Err(err) arm
FailureOutcome(f) ==
    IF is_body(f) THEN Err("Body", 0, to_string(f))
    ELSE IF is_status(f) THEN
        (IF f.status # 0 THEN Err("Status", f.status, to_string(f))
         ELSE Err("Other", 0, to_string(f)))
    ELSE IF is_decode(f) THEN Retry("MalformedResponse")
    ELSE IF is_connect(f) THEN Retry("Connection")
    ELSE IF is_timeout(f) THEN Retry("Timeout")
    ELSE IF is_request(f) THEN Retry("Request")
    ELSE IF is_builder(f) THEN Err("ReqBuilder", 0, to_string(f))
    ELSE IF is_redirect(f) THEN Err("HttpRedirect", 0, to_string(f))
    ELSE Err("Other", 0, "Unknown error")

AttemptOutcome(r, T) ==
    IF r.t = "http" THEN HttpOutcome(r, T) ELSE FailureOutcome(r)

\* the error of exhaustion carrying the retries counted
MaxRetriesExceededCounted(n, max_retries) == Err("MaxRetriesExceeded", n, "")

\* the error returned when the retries are exhausted, n being the counter
MaxRetriesExceeded(n, max_retries) == Err("MaxRetriesExceeded", max_retries, "")

\* one more retry than the loop allows
RetriesExhaustedLate(n, max_retries) == n > max_retries

\* the test that ends the retry loop, made after retries += 1
RetriesExhausted(n, max_retries) == n >= max_retries

(***************************************************************************)
(* The facade methods.  A method is a function of the calls it has made    *)
(* so far and their results: it makes one more call, or it returns.        *)
(***************************************************************************)
Call(rpc, params, T) ==
    [op |-> "call", rpc |-> rpc, params |-> params, T |-> T, val |-> NoResult]
Ret(v) == [op |-> "ret", rpc |-> "", params |-> <<>>, T |-> "", val |-> v]
\* the record of a completed call in calls[t]
Done(c, sent, r) == [rpc |-> c.rpc, params |-> c.params, reqs |-> sent, res |-> r]

\* Display of a ClientError: a text that names the variant
Display(e) == e.tag

\* the carve-out on another server code
send_raw_transaction_26(x, r) ==
    IF r.tag = "Ok" THEN Ok(r.val)
    ELSE IF r.tag = "Server" THEN
        (IF r.code = 0 - 26 THEN Ok(compute_txid(x))
         ELSE Err("Server", r.code, r.msg))
    ELSE Err("Other", 0, Display(r))

send_raw_transaction(x, r) ==
    IF r.tag = "Ok" THEN Ok(r.val)
    ELSE IF r.tag = "Server" THEN
        (IF r.code = TX_ALREADY_IN_CHAIN THEN Ok(compute_txid(x))
         ELSE Err("Server", r.code, r.msg))
    ELSE Err("Other", 0, Display(r))

get_block_count(r) == r

get_transaction(r) == r

\* the height the block methods are called with
HEIGHT == "5"

\* GetBlockVerbosityZero::block and the map_err around it
block(v) ==
    IF v = "blockhex" THEN Ok("block") ELSE Err("Other", 0, "block decode")
\* GetBlockHeaderVerbosityZero::header and the map_err around it
header(v) ==
    IF v = "headerhex" THEN Ok("header") ELSE Err("Other", 0, "header decode")

get_block(hash, log) ==
    IF log = <<>>
    THEN Call("getblock", <<hash, "0">>, "GetBlockVerbosityZero")
    ELSE IF IsErr(log[1].res) THEN Ret(log[1].res)
    ELSE Ret(block(log[1].res.val))

get_block_header(hash, log) ==
    IF log = <<>>
    THEN Call("getblockheader", <<hash, "false">>, "GetBlockHeaderVerbosityZero")
    ELSE IF IsErr(log[1].res) THEN Ret(log[1].res)
    ELSE Ret(header(log[1].res.val))

\* the first call of a log, as a log
First(log) == IF log = <<>> THEN <<>> ELSE <<log[1]>>

get_block_hash(height, log) ==
    IF log = <<>> THEN Call("getblockhash", <<height>>, "BlockHash")
    ELSE Ret(log[1].res)

\* the second call made whatever the first returned
get_block_at_unchecked(height, log) ==
    LET h == get_block_hash(height, First(log))
    IN IF h.op = "call" THEN h
       ELSE get_block(h.val.val, Tail(log))

get_block_at(height, log) ==
    LET h == get_block_hash(height, First(log))
    IN IF h.op = "call" THEN h
       ELSE IF IsErr(h.val) THEN Ret(h.val)
       ELSE get_block(h.val.val, Tail(log))

get_block_header_at(height, log) ==
    LET h == get_block_hash(height, First(log))
    IN IF h.op = "call" THEN h
       ELSE IF IsErr(h.val) THEN Ret(h.val)
       ELSE get_block_header(h.val.val, Tail(log))

get_current_timestamp(log) ==
    IF log = <<>> THEN Call("getbestblockhash", <<>>, "BlockHash")
    ELSE IF IsErr(log[1].res) THEN Ret(log[1].res)
    ELSE LET b == get_block(log[1].res.val, Tail(log))
         IN IF b.op = "ret" /\ ~IsErr(b.val) THEN Ret(Ok("time")) ELSE b

\* the test of the environment variable inverted
get_xpriv_inverted(envset, log) ==
    IF envset THEN Ret(Ok("None"))
    ELSE IF log = <<>> THEN Call("listdescriptors", <<"true">>, "ListDescriptors")
    ELSE IF IsErr(log[1].res) THEN Ret(log[1].res)
    ELSE IF log[1].res.val = "descs_empty"
         THEN Ret(Err("Other", 0, "No descriptors found"))
    ELSE IF log[1].res.val = "descs_tr" THEN Ret(Ok("xpriv"))
    ELSE Ret(Err("Xpriv", 0, ""))

\* envset: var("BITCOIN_XPRIV_RETRIEVABLE") is Ok.  The descriptors listed
\* are none, some without a tr( descriptor, a tr( descriptor whose key does
\* not parse, or a tr( descriptor with an extended private key
get_xpriv(envset, log) ==
    IF ~envset THEN Ret(Ok("None"))
    ELSE IF log = <<>> THEN Call("listdescriptors", <<"true">>, "ListDescriptors")
    ELSE IF IsErr(log[1].res) THEN Ret(log[1].res)
    ELSE IF log[1].res.val = "descs_empty"
         THEN Ret(Err("Other", 0, "No descriptors found"))
    ELSE IF log[1].res.val = "descs_tr" THEN Ret(Ok("xpriv"))
    ELSE Ret(Err("Xpriv", 0, ""))

\* _wallet_create and _wallet_load are bound and never looked at
import_descriptors(log) ==
    CASE Len(log) = 0 -> Call("createwallet", <<"wallet_args">>, "Value")
      [] Len(log) = 1 -> Call("loadwallet", <<"wallet_args">>, "Value")
      [] Len(log) = 2 ->
            Call("importdescriptors", <<"descriptors">>, "Vec<ImportDescriptorResult>")
      [] OTHER -> Ret(log[3].res)

\* the options of wallet_process_psbt: "none" is None
PsbtArgs ==
    [sign : {"none", "true", "false"},
     sighashtype : {"none", "ALL"},
     bip32_derivs : {"none", "true", "false"}]

\* params: psbt, sign.unwrap_or(true), then each option that is Some pushed
wallet_process_psbt(x, log) ==
    IF log = <<>>
    THEN Call("walletprocesspsbt",
              <<"psbt", IF x.sign = "none" THEN "true" ELSE x.sign>>
              \o (IF x.sighashtype # "none" THEN <<x.sighashtype>> ELSE <<>>)
              \o (IF x.bip32_derivs # "none" THEN <<x.bip32_derivs>> ELSE <<>>),
              "WalletProcessPsbtResult")
    ELSE Ret(log[1].res)

Facade(m, x, envset, log) ==
    CASE m = "get_block_at" -> get_block_at(HEIGHT, log)
      [] m = "get_block_header_at" -> get_block_header_at(HEIGHT, log)
      [] m = "get_current_timestamp" -> get_current_timestamp(log)
      [] m = "get_xpriv" -> get_xpriv(envset, log)
      [] m = "import_descriptors" -> import_descriptors(log)
      [] m = "wallet_process_psbt" -> wallet_process_psbt(x, log)
      [] OTHER ->
            IF log = <<>> THEN Call(RpcMethod(m), RpcParams(m, x), ResultType(m))
            ELSE IF m = "send_raw_transaction"
                 THEN Ret(send_raw_transaction(x, log[1].res))
            ELSE IF m = "get_transaction" THEN Ret(get_transaction(log[1].res))
            ELSE Ret(get_block_count(log[1].res))

(***************************************************************************)
(* A task calls a facade method through a handle.  The method returns at   *)
(* once or makes its first call; Client::call starts with retries = 0.     *)
(***************************************************************************)
Invoke(t, h, m, x) ==
    /\ pc[t] = "idle"
    /\ h \in handles
    /\ self' = [self EXCEPT ![t] = h]
    /\ method' = [method EXCEPT ![t] = m]
    /\ tx' = [tx EXCEPT ![t] = x]
    /\ retries' = [retries EXCEPT ![t] = 0]
    /\ LET f == Facade(m, x, env, <<>>)
       IN IF f.op = "call"
          THEN /\ cur' = [cur EXCEPT ![t] = f]
               /\ pc' = [pc EXCEPT ![t] = "loop"]
               /\ UNCHANGED ret
          ELSE /\ ret' = [ret EXCEPT ![t] = f.val]
               /\ pc' = [pc EXCEPT ![t] = "returned"]
               /\ UNCHANGED cur
    /\ UNCHANGED <<worldVars, codecVars, clientVars, id, calls, reqs, hist, last, sleeps,
                   elapsed, res>>

(***************************************************************************)
(* Client::next_id and the request built around it: fetch_add returns the  *)
(* previous value and adds one, in one atomic step.  The request goes to   *)
(* the url of the handle with the default headers of its reqwest client.   *)
(***************************************************************************)
\* a load in place of the fetch_add
next_id_load(c) == [value |-> id[c], counter |-> id]

next_id(c) == [value |-> id[c], counter |-> [id EXCEPT ![c] = id[c] + 1]]

\* the credentials read again for the request
default_headers_reread(c, file) ==
    IF c.auth.has /\ get_user_pass("CookieFile", file).tag = "Ok"
    THEN authorization(get_user_pass("CookieFile", file).cred)
    ELSE c.auth

default_headers(c, file) == c.auth

Send(t) ==
    /\ pc[t] = "loop"
    /\ LET n == next_id(cell[self[t]])
           request == [id |-> n.value, method |-> cur[t].rpc,
                       params |-> cur[t].params,
                       url |-> cfg[self[t]].url,
                       auth |-> default_headers(cfg[self[t]], cookie)]
       IN /\ id' = n.counter
          /\ reqs' = [reqs EXCEPT ![t] = Append(@, request)]
    /\ pc' = [pc EXCEPT ![t] = "await"]
    /\ UNCHANGED <<worldVars, codecVars, clientVars, self, method, tx, calls, cur,
                   retries, hist, last, sleeps, elapsed, res, ret>>

(***************************************************************************)
(* The response or the failure of the attempt in flight arrives.           *)
(***************************************************************************)
\* a terminal outcome met after a retry reported as the exhaustion of retries
ReceiveCounting(t, r) ==
    /\ pc[t] = "await"
    /\ last' = [last EXCEPT ![t] = r]
    /\ LET o == AttemptOutcome(r, cur[t].T)
           max == cfg[self[t]].max_retries
       IN IF o.tag = "Panic"
          THEN /\ pc' = [pc EXCEPT ![t] = "panicked"]
               /\ UNCHANGED <<retries, hist, res>>
          ELSE IF o.tag # "Retry"
          THEN /\ res' = [res EXCEPT ![t] =
                            IF IsErr(o) /\ retries[t] > 0
                            THEN Err("MaxRetriesExceeded", max, "") ELSE o]
               /\ pc' = [pc EXCEPT ![t] = "done"]
               /\ UNCHANGED <<retries, hist>>
          ELSE /\ retries' = [retries EXCEPT ![t] = @ + 1]
               /\ hist' = [hist EXCEPT ![t] = Append(@, o.msg)]
               /\ IF RetriesExhausted(retries[t] + 1, max)
                  THEN /\ res' = [res EXCEPT ![t] =
                                     MaxRetriesExceeded(retries[t] + 1, max)]
                       /\ pc' = [pc EXCEPT ![t] = "done"]
                  ELSE /\ pc' = [pc EXCEPT ![t] = "sleep"]
                       /\ UNCHANGED res
    /\ UNCHANGED <<worldVars, codecVars, clientVars, id, self, method, tx, calls, cur,
                   reqs, sleeps, elapsed, ret>>

Receive(t, r) ==
    /\ pc[t] = "await"
    /\ last' = [last EXCEPT ![t] = r]
    /\ LET o == AttemptOutcome(r, cur[t].T)
           max == cfg[self[t]].max_retries
       IN IF o.tag = "Panic"
          THEN /\ pc' = [pc EXCEPT ![t] = "panicked"]
               /\ UNCHANGED <<retries, hist, res>>
          ELSE IF o.tag # "Retry"
          THEN /\ res' = [res EXCEPT ![t] = o]
               /\ pc' = [pc EXCEPT ![t] = "done"]
               /\ UNCHANGED <<retries, hist>>
          ELSE /\ retries' = [retries EXCEPT ![t] = @ + 1]
               /\ hist' = [hist EXCEPT ![t] = Append(@, o.msg)]
               /\ IF RetriesExhausted(retries[t] + 1, max)
                  THEN /\ res' = [res EXCEPT ![t] =
                                     MaxRetriesExceeded(retries[t] + 1, max)]
                       /\ pc' = [pc EXCEPT ![t] = "done"]
                  ELSE /\ pc' = [pc EXCEPT ![t] = "sleep"]
                       /\ UNCHANGED res
    /\ UNCHANGED <<worldVars, codecVars, clientVars, id, self, method, tx, calls, cur,
                   reqs, sleeps, elapsed, ret>>

(***************************************************************************)
(* sleep(Duration::from_millis(self.retry_interval)) has elapsed.          *)
(***************************************************************************)
Wake(t) ==
    /\ pc[t] = "sleep"
    /\ sleeps' = [sleeps EXCEPT ![t] = @ + 1]
    /\ elapsed' = [elapsed EXCEPT ![t] = @ + cfg[self[t]].retry_interval]
    /\ pc' = [pc EXCEPT ![t] = "loop"]
    /\ UNCHANGED <<worldVars, codecVars, clientVars, id, self, method, tx, calls, cur,
                   retries, reqs, hist, last, res, ret>>

(***************************************************************************)
(* Client::call has returned to the facade method, which returns what it   *)
(* makes of the result (Return) or makes its next call (Continue).         *)
(***************************************************************************)
Resume(t) ==
    Facade(method[t], tx[t], env, Append(calls[t], Done(cur[t], reqs[t], res[t])))

Return(t) ==
    /\ pc[t] = "done"
    /\ Resume(t).op = "ret"
    /\ ret' = [ret EXCEPT ![t] = Resume(t).val]
    /\ calls' = [calls EXCEPT ![t] = Append(@, Done(cur[t], reqs[t], res[t]))]
    /\ pc' = [pc EXCEPT ![t] = "returned"]
    /\ UNCHANGED <<worldVars, codecVars, clientVars, id, self, method, tx, cur, callVars>>

Continue(t) ==
    /\ pc[t] = "done"
    /\ Resume(t).op = "call"
    /\ cur' = [cur EXCEPT ![t] = Resume(t)]
    /\ calls' = [calls EXCEPT ![t] = Append(@, Done(cur[t], reqs[t], res[t]))]
    /\ retries' = [retries EXCEPT ![t] = 0]
    /\ reqs' = [reqs EXCEPT ![t] = <<>>]
    /\ hist' = [hist EXCEPT ![t] = <<>>]
    /\ last' = [last EXCEPT ![t] = NoResponse]
    /\ sleeps' = [sleeps EXCEPT ![t] = 0]
    /\ elapsed' = [elapsed EXCEPT ![t] = 0]
    /\ res' = [res EXCEPT ![t] = NoResult]
    /\ pc' = [pc EXCEPT ![t] = "loop"]
    /\ UNCHANGED <<worldVars, codecVars, clientVars, id, self, method, tx, ret>>

(***************************************************************************)
(* Spec: one caller of the one-call methods, every response and failure.   *)
(* ConcSpec: NumTasks callers through the client and its clones.           *)
(* FacadeSpec: one caller of the methods that make several calls or read   *)
(* the environment, through the client or a clone, the cookie file being   *)
(* rewritten meanwhile.                                                    *)
(* PairSpec: two callers of the same client.                               *)
(* PsbtSpec: one caller of wallet_process_psbt, every choice of options.   *)
(* CookieSpec: Client::new over every cookie file.                         *)
(***************************************************************************)
Next ==
    \/ \E m \in Methods : \E x \in Args(m) : Invoke(1, 1, m, x)
    \/ Send(1)
    \/ \E r \in Responses : Receive(1, r)
    \/ Wake(1)
    \/ Return(1)

\* Client::call and the methods of Next never read the environment
CallInit == Init /\ ~env

Spec == CallInit /\ [][Next]_vars

\* every step of a call in progress is taken: the runtime polls the future
\* and the timer fires
FairSpec ==
    /\ Spec
    /\ WF_vars(Send(1))
    /\ WF_vars(\E r \in Responses : Receive(1, r))
    /\ WF_vars(Wake(1))
    /\ WF_vars(Return(1))

\* the client of the concurrent callers: Client::new(url, auth, Some(2), None)
ConcInit == Init /\ newargs = NewArgs("CookieFile", 2, -1) /\ ~env

\* the clones are numbered in the order they are made
ConcNext ==
    \/ \E h \in Handles : Clone(h, Cardinality(handles) + 1)
    \/ \E t \in Tasks, h \in Handles : Invoke(t, h, "get_block_count", "tx_a")
    \/ \E t \in Tasks : Send(t)
    \/ \E t \in Tasks, r \in ConcResponses : Receive(t, r)
    \/ \E t \in Tasks : Wake(t)
    \/ \E t \in Tasks : Return(t)

ConcSpec == ConcInit /\ [][ConcNext]_vars

\* what the node answers to each RPC method
FacadeResults(rpc) ==
    CASE rpc \in {"getblockhash", "getbestblockhash"} -> {"null", "hash_a", "7"}
      [] rpc = "getblock" -> {"null", "blockhex", "nothex"}
      [] rpc = "getblockheader" -> {"null", "headerhex", "nothex"}
      [] rpc = "listdescriptors" ->
            {"null", "descs_empty", "descs_notr", "descs_badkey", "descs_tr"}
      [] rpc \in {"createwallet", "loadwallet"} -> {"wallet_info"}
      [] rpc = "importdescriptors" -> {"import_ok", "7"}
      [] rpc = "walletprocesspsbt" -> PsbtResults \cup {"7"}
      [] OTHER -> {"null"}

\* -18: the wallet does not exist; -35: the wallet is already loaded
FacadeErrors(rpc) ==
    IF rpc \in {"createwallet", "loadwallet"}
    THEN {<<0 - 18, "not found">>, <<0 - 35, "already loaded">>}
    ELSE {<<0 - 5, "not found">>}

FacadeResponses(rpc) ==
    {Failure("request", TRUE, FALSE, 0), Http(401, "garbage", "", FALSE, 0, "", 0)}
    \cup {Http(200, "envelope", "null", TRUE, e[1], e[2], 0) : e \in FacadeErrors(rpc)}
    \cup {Http(200, "envelope", v, FALSE, 0, "", 0) : v \in FacadeResults(rpc)}

FacadeNext ==
    \/ Clone(1, 2)
    \/ RewriteCookie
    \/ \E h \in {1, 2}, m \in FacadeMethods : Invoke(1, h, m, "tx_a")
    \/ Send(1)
    \/ \E r \in FacadeResponses(cur[1].rpc) : Receive(1, r)
    \/ Wake(1)
    \/ Continue(1)
    \/ Return(1)

FacadeSpec == Init /\ [][FacadeNext]_vars

\* the client of the two callers: Client::new(url, auth, None, None)
PairInit == Init /\ newargs = NewArgs("CookieFile", -1, -1) /\ ~env

PairResponses ==
    {Failure("request", TRUE, FALSE, 0), Failure("request", FALSE, TRUE, 0),
     Failure("builder", FALSE, FALSE, 0),
     Http(401, "garbage", "", FALSE, 0, "", 0),
     Http(200, "garbage", "", FALSE, 0, "", 0),
     Http(200, "envelope", "txid_a", FALSE, 0, "", 0),
     Http(200, "envelope", "null", TRUE, TX_ALREADY_IN_CHAIN, "already in chain", 0),
     Http(200, "envelope", "null", TRUE, 0 - 5, "not found", 0)}

PairNext ==
    \/ \E t \in {1, 2} : Invoke(t, 1, "send_raw_transaction", "tx_a")
    \/ \E t \in {1, 2} : Send(t)
    \/ \E t \in {1, 2}, r \in PairResponses : Receive(t, r)
    \/ \E t \in {1, 2} : Wake(t)
    \/ \E t \in {1, 2} : Return(t)

PairSpec == PairInit /\ [][PairNext]_vars

\* the client of the caller of wallet_process_psbt:
\* Client::new(url, auth, None, None)
PsbtInit == Init /\ newargs = NewArgs("CookieFile", -1, -1) /\ ~env

PsbtNext ==
    \/ \E x \in PsbtArgs : Invoke(1, 1, "wallet_process_psbt", x)
    \/ Send(1)
    \/ \E r \in FacadeResponses(cur[1].rpc) : Receive(1, r)
    \/ Wake(1)
    \/ Return(1)

PsbtSpec == PsbtInit /\ [][PsbtNext]_vars

CookieNext == Construct

CookieSpec == PreInit /\ [][CookieNext]_vars

(***************************************************************************)
(* The codecs on their own: an amount as bitcoind writes it is decoded by  *)
(* both amount decoders; a CreateRawTransactionOutput is serialized, the   *)
(* JSON is deserialized, and the value that comes back is serialized       *)
(* again.                                                                  *)
(***************************************************************************)
CodecInit ==
    /\ InitClient /\ newargs = NewArgs("CookieFile", -1, -1) /\ ~env
    /\ amt \in {[v |-> j, done |-> FALSE, unsigned |-> NotRun,
                  signed |-> NotRun] : j \in AmountInputs}
    /\ out \in {[x |-> x, json |-> NotRun, back |-> NotRun,
                  again |-> NotRun] : x \in Outputs}

DecodeAmount ==
    /\ ~amt.done
    /\ amt' = [amt EXCEPT !.done = TRUE,
                          !.unsigned = deserialize_bitcoin(amt.v),
                          !.signed = deserialize_signed_bitcoin(amt.v)]
    /\ UNCHANGED <<out, worldVars, clientVars, id, callVars, taskVars>>

Serialize ==
    /\ out.json.tag = "None"
    /\ out' = [out EXCEPT !.json = serialize(out.x)]
    /\ UNCHANGED <<amt, worldVars, clientVars, id, callVars, taskVars>>

Deserialize ==
    /\ out.json.tag = "Ok"
    /\ out.back.tag = "None"
    /\ out' = [out EXCEPT !.back = deserialize(out.json.val)]
    /\ UNCHANGED <<amt, worldVars, clientVars, id, callVars, taskVars>>

Reserialize ==
    /\ out.back.tag = "Ok"
    /\ out.again.tag = "None"
    /\ out' = [out EXCEPT !.again = serialize(out.back.val)]
    /\ UNCHANGED <<amt, worldVars, clientVars, id, callVars, taskVars>>

CodecNext ==
    \/ DecodeAmount
    \/ Serialize
    \/ Deserialize
    \/ Reserialize

CodecSpec == CodecInit /\ [][CodecNext]_vars


(***************************************************************************)
(* Vocabulary of the properties.                                           *)
(***************************************************************************)
Returned(t) == pc[t] \in {"done", "returned"}
MaxRetries(t) == cfg[self[t]].max_retries
RetryInterval(t) == cfg[self[t]].retry_interval
Attempts(t) == Len(reqs[t])
Max(a, b) == IF a >= b THEN a ELSE b

RECURSIVE TotalAttempts(_)
TotalAttempts(S) ==
    IF S = {} THEN 0
    ELSE LET t == CHOOSE x \in S : TRUE
         IN Len(reqs[t]) + TotalAttempts(S \ {t})

\* the latest attempt of t was answered by an HTTP response with a 2xx status
Got2xx(t) == last[t].t = "http" /\ last[t].status >= 200 /\ last[t].status <= 299
\* ... whose body is text that parses as Response<T>
GotEnvelope(t) ==
    /\ Got2xx(t)
    /\ last[t].text = "envelope"
    /\ (last[t].result = "null" \/ DecodesAs(cur[t].T, last[t].result))
\* the attempt that got the latest response was the last one of the call: it
\* was not counted as a retry and no sleep followed it
NoRetryAfterLast(t) ==
    /\ Returned(t)
    /\ retries[t] = Attempts(t) - 1
    /\ sleeps[t] = Attempts(t) - 1
    /\ elapsed[t] = sleeps[t] * RetryInterval(t)

(***************************************************************************)
(* C1: the ids placed in requests are pairwise distinct, over all the      *)
(* attempts of all the calls made concurrently through a client and its    *)
(* clones.                                                                 *)
(***************************************************************************)
C1_IdsPairwiseDistinct ==
    \A t1 \in Tasks, t2 \in Tasks :
        \A i \in DOMAIN reqs[t1], j \in DOMAIN reqs[t2] :
            (t1 # t2 \/ i # j) => reqs[t1][i].id # reqs[t2][j].id

\* two calls in flight through two different handles, each on a retry
C1_Witness ==
    /\ pc[1] = "await" /\ pc[2] = "await"
    /\ self[1] # self[2]
    /\ Attempts(1) >= 2 /\ Attempts(2) >= 2

AllConnectionRefused(t) ==
    /\ Returned(t)
    /\ Len(hist[t]) = Attempts(t)
    /\ \A i \in DOMAIN hist[t] : hist[t][i] = "Connection"

C3_Original ==
    \A t \in Tasks :
        AllConnectionRefused(t)
        => /\ res[t] = Err("MaxRetriesExceeded", MaxRetries(t), "")
           /\ sleeps[t] = MaxRetries(t)
           /\ elapsed[t] = MaxRetries(t) * RetryInterval(t)

(***************************************************************************)
(* C3 amended: when every attempt fails with a connection failure, the     *)
(* call returns MaxRetriesExceeded(max_retries) after max_retries attempts *)
(* (one attempt when max_retries is 0) and exactly one delay of the retry  *)
(* interval between two successive attempts: max_retries - 1 delays (none  *)
(* when max_retries is 0).                                                 *)
(***************************************************************************)
C3_DelaysBeforeExhaustion ==
    \A t \in Tasks :
        AllConnectionRefused(t)
        => /\ res[t] = Err("MaxRetriesExceeded", MaxRetries(t), "")
           /\ Attempts(t) = Max(1, MaxRetries(t))
           /\ sleeps[t] = Max(1, MaxRetries(t)) - 1
           /\ elapsed[t] = sleeps[t] * RetryInterval(t)

C3_Witness ==
    /\ AllConnectionRefused(1)
    /\ MaxRetries(1) = 3
    /\ sleeps[1] = 2
    /\ last[1].connect

(***************************************************************************)
(* C4: when the call made by send_raw_transaction ends with the server     *)
(* error -27, send_raw_transaction returns Ok with the identifier computed *)
(* from the submitted transaction.                                         *)
(***************************************************************************)
C4_AlreadyInChainIsSuccess ==
    \A t \in Tasks :
        (pc[t] = "returned" /\ method[t] = "send_raw_transaction"
         /\ res[t].tag = "Server" /\ res[t].code = -27)
        => ret[t] = Ok(compute_txid(tx[t]))

\* the envelope carried another identifier next to the error
C4_Witness ==
    /\ pc[1] = "returned" /\ method[1] = "send_raw_transaction"
    /\ res[1].tag = "Server" /\ res[1].code = -27
    /\ tx[1] = "tx_b" /\ last[1].result = "txid_a"
    /\ ret[1] = Ok("txid_b")

(***************************************************************************)
(* C5: a 2xx response whose envelope has neither result nor error makes    *)
(* the call return the empty-response error at once, whatever the echoed   *)
(* id.                                                                     *)
(***************************************************************************)
C5_EmptyEnvelopeIsTerminal ==
    \A t \in Tasks :
        (GotEnvelope(t) /\ last[t].result = "null" /\ ~last[t].haserr)
        => /\ NoRetryAfterLast(t)
           /\ res[t] = Err("Other", 0, "Empty data received")

\* an empty envelope that echoes an id other than the one of the request
C5_Witness ==
    /\ GotEnvelope(1) /\ last[1].result = "null" /\ ~last[1].haserr
    /\ last[1].idoff = 1
    /\ Returned(1)

(***************************************************************************)
(* C6: an envelope with a structured error makes the call return Server    *)
(* with the code and the message of the envelope, and no further attempt.  *)
(***************************************************************************)
C6_ServerErrorVerbatim ==
    \A t \in Tasks :
        (GotEnvelope(t) /\ last[t].haserr)
        => /\ NoRetryAfterLast(t)
           /\ res[t] = Err("Server", last[t].ecode, last[t].emsg)

C6_Witness ==
    /\ GotEnvelope(1) /\ last[1].haserr /\ last[1].ecode = -5
    /\ last[1].result = "7"
    /\ Returned(1) /\ res[1].code = -5 /\ res[1].msg = "not found"

(***************************************************************************)
(* C7: a 2xx response whose body is not an envelope for the expected       *)
(* result type makes the call return Parse, and no further attempt.        *)
(***************************************************************************)
BodyNotEnvelope(t) ==
    /\ Got2xx(t)
    /\ \/ last[t].text = "garbage"
       \/ /\ last[t].text = "envelope"
          /\ last[t].result # "null"
          /\ ~DecodesAs(cur[t].T, last[t].result)

C7_ParseIsTerminal ==
    \A t \in Tasks :
        BodyNotEnvelope(t) => NoRetryAfterLast(t) /\ res[t].tag = "Parse"

(***************************************************************************)
(* C8: a transport failure of the connection, timeout, request or decode   *)
(* class (the class of a failure is the first of body, status, decode,     *)
(* connect, timeout, request it matches) is retried: the retry counter is  *)
(* incremented and, while it is under max_retries, the call sleeps the     *)
(* retry interval and makes another attempt instead of returning.          *)
(***************************************************************************)
RetryableClass(f) ==
    /\ f.t = "fail"
    /\ f.kind \notin {"body", "status"}
    /\ (f.kind = "decode" \/ f.connect \/ f.timeout \/ f.kind = "request")

C8_RetryableIsRetried ==
    [][\A t \in Tasks :
        /\ (pc[t] = "await" /\ pc'[t] # "await" /\ RetryableClass(last'[t]))
           => /\ retries'[t] = retries[t] + 1
              /\ IF retries'[t] < MaxRetries(t)
                 THEN pc'[t] = "sleep" /\ res'[t] = NoResult
                 ELSE pc'[t] = "done"
                      /\ res'[t] = Err("MaxRetriesExceeded", MaxRetries(t), "")
        /\ (pc[t] = "sleep" /\ pc'[t] # "sleep")
           => /\ pc'[t] = "loop"
              /\ elapsed'[t] = elapsed[t] + RetryInterval(t)
        /\ (pc[t] = "loop" /\ pc'[t] # "loop")
           => pc'[t] = "await" /\ Attempts(t)' = Attempts(t) + 1]_vars

\* a third attempt in flight after a decode failure and a timeout
C8_Witness ==
    /\ pc[1] = "await" /\ Attempts(1) = 3 /\ sleeps[1] = 2
    /\ hist[1] = <<"MalformedResponse", "Timeout">>
    /\ last[1].timeout /\ ~last[1].connect

(***************************************************************************)
(* C9: every attempt takes a new id by one increment of the shared         *)
(* counter: the ids of the successive attempts of a call are strictly      *)
(* increasing, and the counter equals the number of attempts started so    *)
(* far through the client and its clones.                                  *)
(***************************************************************************)
C9_NewIdPerAttempt ==
    /\ \A t \in Tasks : \A i \in DOMAIN reqs[t], j \in DOMAIN reqs[t] :
          i < j => reqs[t][i].id < reqs[t][j].id
    /\ \A h \in handles : id[cell[h]] = TotalAttempts(Tasks)
    /\ \A t \in Tasks : pc[t] = "await" => reqs[t][Attempts(t)].id < id[cell[self[t]]]

\* a call on a retry while the other call, through a clone, took ids in between
C9_Witness ==
    /\ Attempts(1) = 2 /\ Attempts(2) >= 1
    /\ self[1] # self[2]
    /\ reqs[1][1].id + 1 < reqs[1][2].id

(***************************************************************************)
(* C10: a transport failure classified as body, request-builder or         *)
(* redirect failure (a failure of kind builder or redirect is classified   *)
(* so when it is neither a connection failure nor a timeout) makes the     *)
(* call return Body, ReqBuilder or HttpRedirect at once, on whichever      *)
(* attempt it occurs.                                                      *)
(***************************************************************************)
TerminalClass(f) ==
    IF f.t # "fail" THEN "none"
    ELSE IF f.kind = "body" THEN "Body"
    ELSE IF f.kind = "builder" /\ ~f.connect /\ ~f.timeout THEN "ReqBuilder"
    ELSE IF f.kind = "redirect" /\ ~f.connect /\ ~f.timeout THEN "HttpRedirect"
    ELSE "none"

C10_TerminalFailuresReturn ==
    \A t \in Tasks :
        TerminalClass(last[t]) # "none"
        => /\ NoRetryAfterLast(t)
           /\ res[t].tag = TerminalClass(last[t])
           /\ res[t].tag # "MaxRetriesExceeded"

\* a builder failure on the last attempt max_retries allows
C10_Witness ==
    /\ TerminalClass(last[1]) = "ReqBuilder"
    /\ Attempts(1) = 3 /\ MaxRetries(1) = 3 /\ Returned(1)

(***************************************************************************)
(* C11: a failure to read the body of a 2xx response is retryable: the     *)
(* call does not return on it while retries are left, and a call that      *)
(* returned right after it returned because its retries were exhausted.    *)
(***************************************************************************)
BodyUnreadable(t) ==
    Got2xx(t) /\ last[t].text = "unreadable" /\ last[t].kind = "decode"

C11_UnreadableBodyIsRetried ==
    \A t \in Tasks :
        (BodyUnreadable(t) /\ Returned(t)) =>
            /\ res[t].tag = "MaxRetriesExceeded"
            /\ retries[t] = Attempts(t)

(***************************************************************************)
(* C13: a facade method that returned after one of its calls ended in an   *)
(* error returned an error, the exceptions being send_raw_transaction on   *)
(* server code -27 (and get_xpriv without the flag, which makes no call).  *)
(***************************************************************************)
SomeCallFailed(t) == \E i \in 1..Len(calls[t]) : IsErr(calls[t][i].res)

AlreadyInChain(t) ==
    /\ method[t] = "send_raw_transaction"
    /\ \E i \in 1..Len(calls[t]) :
          calls[t][i].res.tag = "Server" /\ calls[t][i].res.code = TX_ALREADY_IN_CHAIN

C13_NoErrorSwallowed ==
    \A t \in Tasks :
        (pc[t] = "returned" /\ SomeCallFailed(t) /\ ~AlreadyInChain(t)) =>
            IsErr(ret[t])

(***************************************************************************)
(* C14: with BITCOIN_XPRIV_RETRIEVABLE not set, get_xpriv returns Ok(None) *)
(* at once: the task made no call and sent no request, and no counter cell *)
(* has moved from the value it had when the method was invoked.            *)
(***************************************************************************)
C14_XprivGated ==
    \A t \in Tasks :
        (method[t] = "get_xpriv" /\ pc[t] # "idle" /\ ~env) =>
            /\ pc[t] = "returned"
            /\ ret[t] = Ok("None")
            /\ calls[t] = <<>>
            /\ reqs[t] = <<>>
            /\ \A c \in Cells : id[c] = 0

\* the same call with the variable set goes to the node
C14_Witness ==
    /\ method[1] = "get_xpriv" /\ pc[1] = "returned" /\ ~env
    /\ ret[1] = Ok("None") /\ id[1] = 0

C14_WitnessSet ==
    /\ method[1] = "get_xpriv" /\ pc[1] = "returned" /\ env
    /\ ret[1] = Ok("xpriv") /\ id[1] > 0

(***************************************************************************)
(* C15: every call terminates: once Client::call has been entered, and     *)
(* every attempt comes back and every sleep ends, it returns a success, a  *)
(* terminal error or MaxRetriesExceeded.                                   *)
(***************************************************************************)
C15_CallTerminates ==
    \A t \in Tasks : (pc[t] = "loop") ~> (Returned(t) /\ res[t].tag # "None")

(***************************************************************************)
(* C16: retries do not show in the outcome: of two calls of the same       *)
(* method with the same arguments whose last attempt came back with the    *)
(* same response r, one after retried failures and one at the first        *)
(* attempt, both return the same result, provided the one that retried     *)
(* had retries left (it did not end in MaxRetriesExceeded on r).           *)
(***************************************************************************)
RetriesLeft(t) == retries[t] < MaxRetries(t)

C16_RetriesInvisible ==
    \A t, u \in Tasks :
        (/\ pc[t] = "returned" /\ pc[u] = "returned"
         /\ method[t] = method[u] /\ tx[t] = tx[u]
         /\ last[t] = last[u]
         /\ RetriesLeft(t) /\ RetriesLeft(u)) =>
            /\ res[t] = res[u]
            /\ ret[t] = ret[u]

\* a terminal error met by one call after two retries and by the other at once
C16_Witness ==
    /\ pc[1] = "returned" /\ pc[2] = "returned"
    /\ last[1] = last[2] /\ IsErr(ret[1])
    /\ Len(hist[1]) = 2 /\ Len(hist[2]) = 0
    /\ hist[1][1] # hist[1][2]

(***************************************************************************)
(* C17: get_block_at, get_block_header_at and get_current_timestamp make   *)
(* their calls in sequence.  Once the second call has started, the first   *)
(* has returned Ok, the second is made with the hash the first returned,   *)
(* and every request of the second was sent after every request of the     *)
(* first.  When the first call ends in an error, the method returns that   *)
(* error and no second call is made.                                       *)
(***************************************************************************)
TwoCallMethods == {"get_block_at", "get_block_header_at", "get_current_timestamp"}

SecondStarted(t) == cur[t].rpc \in {"getblock", "getblockheader"}

C17_CallsInSequence ==
    \A t \in Tasks :
        (method[t] \in TwoCallMethods /\ pc[t] # "idle") =>
            /\ Len(calls[t]) <= 2
            /\ SecondStarted(t) =>
                  /\ Len(calls[t]) >= 1
                  /\ calls[t][1].rpc \in {"getblockhash", "getbestblockhash"}
                  /\ calls[t][1].res.tag = "Ok"
                  /\ cur[t].params[1] = calls[t][1].res.val
                  /\ \A j \in 1..Len(reqs[t]) :
                        /\ Len(calls[t]) = 1 => reqs[t][j].params[1] = calls[t][1].res.val
                        /\ \A i \in 1..Len(calls[t][1].reqs) :
                              calls[t][1].reqs[i].id < reqs[t][j].id
            /\ (Len(calls[t]) >= 1 /\ IsErr(calls[t][1].res)) =>
                  /\ pc[t] = "returned"
                  /\ ret[t] = calls[t][1].res
                  /\ Len(calls[t]) = 1
                  /\ ~SecondStarted(t)

\* a block fetched by height, each of the two calls having retried once
C17_Witness ==
    /\ method[1] = "get_block_at" /\ pc[1] = "returned"
    /\ ret[1] = Ok("block")
    /\ Len(calls[1]) = 2
    /\ Len(calls[1][1].reqs) = 2 /\ Len(calls[1][2].reqs) = 2
    /\ calls[1][2].params = <<"hash_a", "0">>

\* the first call failed after a retry
C17_WitnessFirstFails ==
    /\ method[1] = "get_current_timestamp" /\ pc[1] = "returned"
    /\ Len(calls[1]) = 1 /\ calls[1][1].res.tag = "Status"
    /\ Len(calls[1][1].reqs) = 2

(***************************************************************************)
(* C18: the url, the authorization header, max_retries and retry_interval  *)
(* of the client and of every clone are those fixed by Client::new         *)
(* (max_retries 3 and retry_interval 1000 when not given), whatever calls, *)
(* retries and clones have happened, and every request sent carries that   *)
(* url and that header, also after the cookie file has been rewritten.     *)
(***************************************************************************)
\* the header made of the cookie that was on disk when the client was built
BuiltHeader == [has |-> TRUE, basic |-> <<"a", ":", "a">>]
BuiltMaxRetries == IF newargs.max_retries = -1 THEN 3 ELSE newargs.max_retries
BuiltRetryInterval ==
    IF newargs.retry_interval = -1 THEN 1000 ELSE newargs.retry_interval

AsBuilt(q) == q.url = URL /\ q.auth = BuiltHeader

C18_ConfigurationImmutable ==
    /\ \A h \in handles :
          /\ cfg[h].url = URL
          /\ cfg[h].auth = BuiltHeader
          /\ cfg[h].max_retries = BuiltMaxRetries
          /\ cfg[h].retry_interval = BuiltRetryInterval
    /\ \A t \in Tasks :
          /\ \A j \in 1..Len(reqs[t]) : AsBuilt(reqs[t][j])
          /\ \A i \in 1..Len(calls[t]) :
                \A j \in 1..Len(calls[t][i].reqs) : AsBuilt(calls[t][i].reqs[j])

\* a retry sent through a clone of a client built with the defaults, after
\* the cookie file was rewritten
C18_Witness ==
    /\ cookie = RotatedCookie
    /\ self[1] = 2 /\ 2 \in handles
    /\ newargs.max_retries = -1 /\ newargs.retry_interval = -1
    /\ Len(reqs[1]) = 2 /\ elapsed[1] = 1000
    /\ Len(calls[1]) = 1

(***************************************************************************)
(* C19: for Auth::CookieFile, Client::new fails when the file is missing,  *)
(* holds no byte, or has no colon in its first line; otherwise it succeeds *)
(* and get_user_pass has returned as username the text of the first line   *)
(* before its first colon (a text without colon) and as password all the   *)
(* rest of the first line, further colons included.                        *)
(***************************************************************************)
\* the line terminators and the colons of a text
Terminators(s) == {i \in 1..Len(s) : s[i] = "nl"}
Colons(s) == {i \in 1..Len(s) : s[i] = ":"}
\* the text before the first line terminator
LineOf(s) ==
    IF Terminators(s) = {} THEN s
    ELSE SubSeq(s, 1, (CHOOSE i \in Terminators(s) :
                          \A j \in Terminators(s) : i <= j) - 1)

C19_CookieFirstLineFirstColon ==
    (newres # "None" /\ newargs.auth = "CookieFile") =>
        IF ~cookie.exists \/ cookie.text = <<>> \/ Colons(LineOf(cookie.text)) = {}
        THEN /\ newres = "Other" /\ userpass.tag = "Other"
             /\ handles = {}
        ELSE /\ newres = "Ok" /\ userpass.tag = "Ok"
             /\ handles = {1}
             /\ userpass.cred.has
             /\ Colons(userpass.cred.user) = {}
             /\ userpass.cred.user \o <<":">> \o userpass.cred.pass
                   = LineOf(cookie.text)

\* a password with a colon in it, and a second line that is ignored
C19_Witness ==
    /\ newres = "Ok" /\ newargs.auth = "CookieFile"
    /\ userpass.cred.user = <<"a">>
    /\ userpass.cred.pass = <<":">>
    /\ Len(cookie.text) > Len(LineOf(cookie.text)) + 1

\* a file whose first line is empty
C19_WitnessNoColon ==
    /\ newres = "Other" /\ newargs.auth = "CookieFile"
    /\ cookie.exists /\ cookie.text # <<>> /\ LineOf(cookie.text) = <<>>

(***************************************************************************)
(* C20: a 2xx envelope whose result holds a txid or a transaction hex that *)
(* is malformed makes the call return a terminal error after that          *)
(* attempt, with no retry; the task does not panic.                        *)
(***************************************************************************)
MalformedHex(t) ==
    /\ Got2xx(t) /\ last[t].text = "envelope"
    /\ cur[t].T = "GetTransaction"
    /\ last[t].result \in {"gettx_badtxid", "gettx_badhex"}

C20_MalformedHexIsTerminalError ==
    \A t \in Tasks :
        MalformedHex(t) =>
            /\ pc[t] # "panicked"
            /\ NoRetryAfterLast(t)
            /\ IsErr(res[t])

ErrorStatus(r) == r.t = "http" /\ r.status >= 400 /\ r.status <= 599

C26_ErrorsUnaltered ==
    \A t \in Tasks :
        (/\ pc[t] = "returned" /\ method[t] = "send_raw_transaction"
         /\ IsErr(res[t])
         /\ ~(res[t].tag = "Server" /\ res[t].code = TX_ALREADY_IN_CHAIN)) =>
            /\ ret[t].tag = res[t].tag
            /\ ret[t].code = res[t].code
            /\ res[t].tag = "Server" => ret[t].msg = res[t].msg

(***************************************************************************)
(* C27: the accounting of the retry loop.  A sleep separates two           *)
(* successive attempts and nothing else: a call that has returned slept    *)
(* once less than it made attempts.  MaxRetriesExceeded is returned with   *)
(* max_retries as payload, exactly when every attempt of the call failed   *)
(* with a retryable class, and then the call made max_retries attempts,    *)
(* or one attempt when max_retries is 0.                                   *)
(***************************************************************************)
RetryClasses == {"MalformedResponse", "Connection", "Timeout", "Request"}

AllAttemptsRetried(t) ==
    /\ Len(hist[t]) = Attempts(t)
    /\ \A i \in 1..Len(hist[t]) : hist[t][i] \in RetryClasses

C27_RetryAccounting ==
    \A t \in Tasks :
        /\ pc[t] \in {"await", "sleep", "panicked"} => sleeps[t] = Attempts(t) - 1
        /\ pc[t] = "loop" => sleeps[t] = Attempts(t)
        /\ Returned(t) =>
              /\ sleeps[t] = Attempts(t) - 1
              /\ elapsed[t] = (Attempts(t) - 1) * RetryInterval(t)
              /\ AllAttemptsRetried(t) <=> res[t].tag = "MaxRetriesExceeded"
              /\ AllAttemptsRetried(t) =>
                    /\ res[t] = Err("MaxRetriesExceeded", MaxRetries(t), "")
                    /\ Attempts(t) = IF MaxRetries(t) = 0 THEN 1 ELSE MaxRetries(t)

\* max_retries 0: one retryable failure exhausts the call
C27_Witness ==
    /\ Returned(1) /\ MaxRetries(1) = 0
    /\ Attempts(1) = 1 /\ sleeps[1] = 0
    /\ res[1] = Err("MaxRetriesExceeded", 0, "")

\* max_retries 3: three failures of three classes, two sleeps
C27_WitnessMixed ==
    /\ Returned(1) /\ MaxRetries(1) = 3 /\ res[1].tag = "MaxRetriesExceeded"
    /\ hist[1] = <<"Timeout", "MalformedResponse", "Request">>
    /\ sleeps[1] = 2

(***************************************************************************)
(* C28: a failed attempt is classified by the first test that holds, in    *)
(* the order body, status, decode, connect, timeout, request, builder,     *)
(* redirect.  A failure of kind body or status is terminal whatever its    *)
(* connect and timeout flags; a failure of kind decode is retried as       *)
(* MalformedResponse whatever its flags; then the connect flag, then the   *)
(* timeout flag, then the kinds request, builder, redirect decide; a       *)
(* failure that passes no test returns Other("Unknown error").             *)
(***************************************************************************)
\* the position of the first test a failure passes, 9 when it passes none
FirstTest(f) ==
    CHOOSE n \in 1..9 :
        /\ <<f.kind = "body", f.kind = "status", f.kind = "decode", f.connect,
             f.timeout, f.kind = "request", f.kind = "builder",
             f.kind = "redirect", TRUE>>[n]
        /\ \A k \in 1..(n - 1) :
              ~<<f.kind = "body", f.kind = "status", f.kind = "decode", f.connect,
                 f.timeout, f.kind = "request", f.kind = "builder",
                 f.kind = "redirect", TRUE>>[k]

\* the class retried or the error returned at each position
ClassAt(n, f) ==
    <<"Body", IF f.status # 0 THEN "Status" ELSE "Other", "MalformedResponse",
      "Connection", "Timeout", "Request", "ReqBuilder", "HttpRedirect",
      "Other">>[n]

C28_FirstTestDecides ==
    \A t \in Tasks :
        last[t].t = "fail" =>
            LET n == FirstTest(last[t])
            IN IF n \in 3..6
               THEN /\ hist[t] # <<>>
                    /\ hist[t][Len(hist[t])] = ClassAt(n, last[t])
                    /\ retries[t] = Len(hist[t])
                    /\ pc[t] \in {"sleep", "done", "returned"} =>
                          Len(hist[t]) = Attempts(t)
                    /\ Returned(t) => res[t].tag = "MaxRetriesExceeded"
               ELSE /\ NoRetryAfterLast(t)
                    /\ res[t].tag = ClassAt(n, last[t])
                    /\ n = 9 => res[t] = Err("Other", 0, "Unknown error")
                    /\ n = 2 => res[t].code = last[t].status

\* a failure of kind body flagged connect and timeout, met on a retry
C28_Witness ==
    /\ last[1].t = "fail" /\ last[1].kind = "body"
    /\ last[1].connect /\ last[1].timeout
    /\ Returned(1) /\ res[1].tag = "Body" /\ Attempts(1) = 2

\* a failure that passes no test
C28_WitnessUnknown ==
    /\ last[1].t = "fail" /\ last[1].kind = "upgrade"
    /\ Returned(1) /\ res[1] = Err("Other", 0, "Unknown error")

(***************************************************************************)
(* C29 as stated: a call that returned on a 2xx envelope carrying both a   *)
(* result and an error returned Server with the code and the message of    *)
(* the error.                                                              *)
(***************************************************************************)
BothResultAndError(t) ==
    /\ Got2xx(t) /\ last[t].text = "envelope"
    /\ last[t].result # "null" /\ last[t].haserr

PsbtRequest(q, x) ==
    /\ q.params[1] = "psbt"
    /\ q.params[2] = (IF x.sign = "none" THEN "true" ELSE x.sign)
    /\ x.bip32_derivs # "none" =>
          /\ Len(q.params) = 4
          /\ q.params[4] = x.bip32_derivs
    /\ Len(q.params) >= 3 => q.params[3] \notin {"true", "false"}

C30_ParametersKeepPosition ==
    \A t \in Tasks :
        method[t] = "wallet_process_psbt" =>
            \A j \in 1..Len(reqs[t]) : PsbtRequest(reqs[t][j], tx[t])

(***************************************************************************)
(* C22: the psbt field of a WalletProcessPsbtResult.  A walletprocesspsbt  *)
(* result whose psbt member is null or is not in the object decodes, the   *)
(* field being None; one whose psbt member is a valid PSBT decodes, the    *)
(* field being Some; one whose psbt member is a string that is no PSBT     *)
(* makes the call return an error.                                         *)
(***************************************************************************)
GotPsbtResult(t) ==
    /\ cur[t].T = "WalletProcessPsbtResult"
    /\ Got2xx(t) /\ last[t].text = "envelope" /\ ~last[t].haserr
    /\ last[t].result \in PsbtResults
    /\ Returned(t)

C22_OptionalPsbt ==
    \A t \in Tasks :
        GotPsbtResult(t) =>
            LET f == psbt_member(last[t].result)
                d == WalletProcessPsbtResult_psbt(f)
            IN /\ f \in {"null", "missing"} =>
                     res[t] = Ok(last[t].result) /\ d.ok /\ d.psbt = "None"
               /\ f = "valid" =>
                     res[t] = Ok(last[t].result) /\ d.ok /\ d.psbt = "Some"
               /\ f = "malformed" => res[t].tag = "Parse" /\ ~d.ok

(***************************************************************************)
(* The amount decoders and the output codec.                               *)
(***************************************************************************)
\* an amount as bitcoind writes it: a float of a whole number of satoshis
WholeSatoshis(j) == j.t = "float" /\ j.n % 10 = 0

\* C21: a negative amount v < 0 is rejected by deserialize_bitcoin, which
\* returns an error, and is accepted by deserialize_signed_bitcoin, which
\* returns the negative amount at the scale of 100,000,000 satoshis to the
\* bitcoin; for v >= 0 both decoders return the same number of satoshis.
C21_NegativeRejectedUnsigned ==
    (amt.done /\ WholeSatoshis(amt.v)) =>
        /\ amt.signed.tag = "Ok"
        /\ amt.signed.val = amt.v.n \div 10
        /\ amt.v.n < 0 => amt.unsigned.tag = "Error"
        /\ amt.v.n >= 0 => /\ amt.unsigned.tag = "Ok"
                           /\ amt.unsigned.val = amt.signed.val

\* C23: the serialization of an AddressAmount is a JSON object of exactly
\* one member, whose key is the address and whose value is the amount; the
\* serialization of a Data is a JSON object of the one member "data" whose
\* value is the payload; this for every address, amount and payload.
C23_SingleKeyObject ==
    out.json.tag # "None" =>
        /\ out.json.tag = "Ok"
        /\ Cardinality(out.json.val) = 1
        /\ \A m \in out.json.val :
              IF out.x.variant = "AddressAmount"
              THEN m.key = out.x.address /\ m.val = JFloat(out.x.amount.e9)
              ELSE m.key = "data" /\ m.val = JString(out.x.data)

\* C24: a CreateRawTransactionOutput round-trips: for every value x of
\* either variant, deserializing the JSON that serializing x produced
\* succeeds and returns x, and serializing that again gives the same
\* single-key JSON.
C24_RoundTrip ==
    /\ (out.json.tag = "Ok" /\ out.back.tag # "None") =>
          /\ out.back.tag = "Ok"
          /\ out.back.val = out.x
    /\ out.again.tag # "None" =>
          /\ out.again.tag = "Ok"
          /\ out.again.val = out.json.val
====
